---- MODULE Spec2Model ----
(***************************************************************************)
(* statistics-backend: the refresh (update_data) and read (get_data) paths *)
(* of the energy, rainfall and temperature backends.                       *)
(*                                                                         *)
(* One behaviour follows one metric.  The persisted state is the pair of   *)
(* JSON files output_data_file (canonical) and cache_data_file (cache);    *)
(* the environment is the wall clock and the InfluxDB bucket.  A refresh   *)
(* is split where the code blocks: file load, query, cache write,          *)
(* canonical write.  date.today() (read just before the query is built)    *)
(* and the query's stop bound now() are taken in the same step, i.e. on    *)
(* the same calendar day; the clock is free to advance between any two     *)
(* steps.  The machine's local date and the UTC date of the bucket's       *)
(* timestamps coincide.                                                    *)
(*                                                                         *)
(* The endpoints (monthly and yearly rollups of energy and rainfall, the   *)
(* temperature daily endpoint) are functions of what get_data() returns    *)
(* and of date.today(); SpecRollup and SpecTemperature apply them to       *)
(* persisted histories drawn from bounded sets.                            *)
(***************************************************************************)
EXTENDS Integers, Sequences, FiniteSets, TLC

(***************************************************************************)
(* Bounds                                                                  *)
(***************************************************************************)
\* number of days the clock may advance past the first day of a behaviour
MaxDays == 3
\* the same, while two callers run concurrently
MaxDaysConcurrent == 2

(***************************************************************************)
(* Calendar: datetime.date as a proleptic ordinal (ordinal 1 = 2022-01-01) *)
(* and its ISO text as the triple <<YYYY, MM, DD>>.                        *)
(***************************************************************************)
BaseYear == 2022

IsLeap(y) == (y % 4 = 0 /\ y % 100 # 0) \/ y % 400 = 0

monthrange(y, m) ==
    IF m = 2 THEN (IF IsLeap(y) THEN 29 ELSE 28)
    ELSE IF m \in {4, 6, 9, 11} THEN 30 ELSE 31

DaysInYear(y) == IF IsLeap(y) THEN 366 ELSE 365

RECURSIVE DaysBeforeYear(_)
DaysBeforeYear(y) == IF y <= BaseYear THEN 0 ELSE DaysBeforeYear(y - 1) + DaysInYear(y - 1)

RECURSIVE DaysBeforeMonth(_, _)
DaysBeforeMonth(y, m) == IF m <= 1 THEN 0 ELSE DaysBeforeMonth(y, m - 1) + monthrange(y, m - 1)

\* date(year=y, month=m, day=d)
date(y, m, d) == DaysBeforeYear(y) + DaysBeforeMonth(y, m) + d

RECURSIVE YearOf(_, _)
YearOf(n, y) == IF n <= DaysBeforeYear(y + 1) THEN y ELSE YearOf(n, y + 1)

RECURSIVE MonthOf(_, _, _)
MonthOf(n, y, m) ==
    IF n <= DaysBeforeYear(y) + DaysBeforeMonth(y, m + 1) THEN m ELSE MonthOf(n, y, m + 1)

\* date.isoformat(): "YYYY-MM-DD"
isoformat(n) ==
    LET y == YearOf(n, BaseYear)
        m == MonthOf(n, y, 1)
    IN  <<y, m, n - DaysBeforeYear(y) - DaysBeforeMonth(y, m)>>

\* date.fromisoformat("YYYY-MM-DD")
fromisoformat(s) == date(s[1], s[2], s[3])

\* d + timedelta(days=1)
timedelta_days_1(d) == d + 1

(***************************************************************************)
(* Instants: a timezone-aware datetime is SlotsPerDay * date + slot.       *)
(***************************************************************************)
SlotsPerDay == 4

\* datetime.date()
DateOf(t) == t \div SlotsPerDay

\* midnight UTC of a date: the _time of a daily window (timeSrc: "_start")
Midnight(d) == d * SlotsPerDay

\* datetime.isoformat() / datetime.fromisoformat()
dt_isoformat(t) == <<isoformat(DateOf(t)), t % SlotsPerDay>>
dt_fromisoformat(s) == fromisoformat(s[1]) * SlotsPerDay + s[2]

\* astral.sun.sun(city.observer, date=day)
sun(day) == [sunrise |-> Midnight(day) + 1, sunset |-> Midnight(day) + 2]

(***************************************************************************)
(* Program constants                                                       *)
(***************************************************************************)
Metrics == {"energy", "rainfall", "temperature"}

\* Python's None, as a daily aggregate that is null
None == -1

\* 0.28 mm, in units of 1e-7 mm
TipThreshold == 2800000

\* the sensor-fault floor
FaultFloor == -140

\* latest_date when the canonical file is absent
TemperatureEpoch == date(2022, 7, 1)
TotalsEpoch == date(2022, 8, 1)
DefaultLatestDate(m) == IF m = "temperature" THEN TemperatureEpoch ELSE TotalsEpoch

(***************************************************************************)
(* The bucket: for every day, the rows InfluxDB holds for it.  Energy and  *)
(* rainfall: at most one daily aggregate <<v>> (createEmpty: false).       *)
(* Temperature: the raw samples of the day, in time order.                 *)
(***************************************************************************)
FirstDay(m) == DefaultLatestDate(m)
Days(m) == FirstDay(m) .. (FirstDay(m) + MaxDays)

EnergyValues == {None, 1, 2}
RainfallValues == {TipThreshold, TipThreshold + 1, TipThreshold + 2}
TemperatureValues == {FaultFloor - 10, 10}
TemperatureSlots == {1}

\* what a day's rows may become when one more upstream sample arrives
Grown(m, d, rows) ==
    CASE m = "energy" ->
           {<<v>> : v \in {w \in EnergyValues : rows = <<>> \/ w > rows[1]}}
      [] m = "rainfall" ->
           {<<v>> : v \in {w \in RainfallValues : rows = <<>> \/ w > rows[1]}}
      [] m = "temperature" ->
           IF rows # <<>> THEN {}
           ELSE {<<[_time |-> Midnight(d) + s, _value |-> v]>> :
                    s \in TemperatureSlots, v \in TemperatureValues}

VARIABLES
    metric,     \* the backend this behaviour follows
    nproc,      \* number of update_data() callers
    now,        \* the wall clock's calendar date
    source,     \* the bucket: day -> rows
    canon,      \* output_data_file
    cache,      \* cache_data_file
    pc,         \* each caller's position in update_data()
    loc,        \* each caller's local variables
    outcome,    \* how each caller's last update_data() ended
    start,      \* history: the two files as each caller's refresh found them
    seen,       \* history: the bucket as each caller's query found it
    last,       \* history: the last refresh that completed; valid while both
                \* files hold what it wrote
    writer,     \* history: the caller that last wrote each file
    view        \* what the last endpoint call returned

vars == <<metric, nproc, now, source, canon, cache, pc, loc, outcome, start, seen, last, writer,
          view>>

Procs == 1 .. nproc

\* a path that is not a file / a file holding a JSON document
Absent == [exists |-> FALSE, data |-> <<>>]
File(doc) == [exists |-> TRUE, data |-> doc]

NoLocals == [data |-> <<>>, latest_date |-> 0, today |-> 0,
             output_data |-> <<>>, save_data |-> <<>>]

EmptyBucket(m) == [d \in Days(m) |-> <<>>]

\* no endpoint has been called
NoView == [endpoint |-> "none", raised |-> "", data |-> <<>>]

NoLast(m) == [valid |-> FALSE, today |-> 0, source |-> EmptyBucket(m),
              today_records |-> <<>>, repeat |-> FALSE]

InitWith(n) ==
    /\ metric \in Metrics
    /\ nproc = n
    /\ now = FirstDay(metric)
    /\ source = EmptyBucket(metric)
    /\ canon = Absent
    /\ cache = Absent
    /\ pc = [p \in 1 .. n |-> "idle"]
    /\ loc = [p \in 1 .. n |-> NoLocals]
    /\ outcome = [p \in 1 .. n |-> "none"]
    /\ start = [p \in 1 .. n |-> <<Absent, Absent>>]
    /\ seen = [p \in 1 .. n |-> EmptyBucket(metric)]
    /\ last = NoLast(metric)
    /\ writer = [canon |-> 0, cache |-> 0]
    /\ view = NoView

Init == InitWith(1)

(***************************************************************************)
(* Environment                                                             *)
(***************************************************************************)
\* midnight passes
NextDay ==
    /\ now < FirstDay(metric) + MaxDays
    /\ now' = now + 1
    /\ UNCHANGED <<view, metric, nproc, source, canon, cache, pc, loc, outcome, start, seen, last, writer>>

\* a sensor reading reaches the bucket: today's rows grow
Upstream ==
    /\ \E rows \in Grown(metric, now, source[now]) :
          source' = [source EXCEPT ![now] = rows]
    /\ UNCHANGED <<view, metric, nproc, now, canon, cache, pc, loc, outcome, start, seen, last, writer>>

(***************************************************************************)
(* The Sample Source: client.query_api().query(query)                      *)
(***************************************************************************)
\* the rows of one day, as the query's pipeline yields them
DayRows(m, d, bucket) ==
    IF m = "temperature" THEN bucket[d]
    ELSE [i \in 1 .. Len(bucket[d]) |-> [_time |-> Midnight(d), _value |-> bucket[d][i]]]

\* range(start: <first>T00:00:00Z, stop: now()), in time order
RECURSIVE RangeRows(_, _, _, _)
RangeRows(m, first, stop, bucket) ==
    IF first > stop THEN <<>>
    ELSE (IF first \in DOMAIN bucket THEN DayRows(m, first, bucket) ELSE <<>>)
         \o RangeRows(m, first + 1, stop, bucket)

\* (mutant) the range starts on latest_date itself
RangeStart_NoIncrement(latest_date) == fromisoformat(isoformat(latest_date))

\* the start of the range: (latest_date+timedelta(days=1)).isoformat()
RangeStart(latest_date) == fromisoformat(isoformat(timedelta_days_1(latest_date)))

\* (mutant) every refresh asks for the whole history again
QueryTables_FromEpoch(m, latest_date, bucket, clock) ==
    LET rows == RangeRows(m, RangeStart(DefaultLatestDate(m)), clock, bucket)
    IN  IF rows = <<>> THEN <<>> ELSE <<rows>>

\* the TableList the client returns: no table at all when the range holds no row
QueryTables(m, latest_date, bucket, clock) ==
    LET rows == RangeRows(m, RangeStart(latest_date), clock, bucket)
    IN  IF rows = <<>> THEN <<>> ELSE <<rows>>

(***************************************************************************)
(* update_data(), energy and rainfall                                      *)
(***************************************************************************)
Record(m, d, v) ==
    IF m = "energy" THEN [date |-> d, consumption |-> v] ELSE [date |-> d, rainfall_mm |-> v]

Value(m, r) == IF m = "energy" THEN r.consumption ELSE r.rainfall_mm

\* for day in data: day["date"] = date.fromisoformat(day["date"])
ParseDates(doc) == [i \in 1 .. Len(doc) |-> [doc[i] EXCEPT !.date = fromisoformat(@)]]

\* (mutant) the first record's date instead of the last one's
LatestDate_First(data) == data[1].date

\* latest_date = data[-1]["date"]
LatestDate(data) == data[Len(data)].date

\* (mutant) a total equal to the threshold is recorded, too
RECURSIVE AppendRows_AtLeast(_, _, _)
AppendRows_AtLeast(m, data, rows) ==
    IF rows = <<>> THEN data
    ELSE LET x == Head(rows)
             keep == m = "energy" \/ x._value >= TipThreshold
         IN  AppendRows_AtLeast(m,
                        IF keep THEN Append(data, Record(m, DateOf(x._time), x._value)) ELSE data,
                        Tail(rows))

\* the loop over zip(all_values, period_start_times)
RECURSIVE AppendRows(_, _, _)
AppendRows(m, data, rows) ==
    IF rows = <<>> THEN data
    ELSE LET x == Head(rows)
             keep == m = "energy" \/ x._value > TipThreshold
         IN  AppendRows(m,
                        IF keep THEN Append(data, Record(m, DateOf(x._time), x._value)) ELSE data,
                        Tail(rows))

\* prepared_data
Prepared(m, r) == Record(m, isoformat(r.date), Value(m, r))

\* the records the output loop does not skip
Kept(m, data) == SelectSeq(data, LAMBDA r : ~(m = "energy" /\ r.consumption = None))

\* output_data: every kept record, prepared
OutputData(m, data) ==
    LET k == Kept(m, data) IN [i \in 1 .. Len(k) |-> Prepared(m, k[i])]

\* (mutant) today's record is not held back
SaveData_KeepsToday(m, data, today) == OutputData(m, data)

\* (mutant) save_data is written newest first, as the daily endpoint lists it
SaveData_Reversed(m, data, today) ==
    LET k == SelectSeq(Kept(m, data), LAMBDA r : r.date # today)
    IN  [i \in 1 .. Len(k) |-> Prepared(m, k[Len(k) + 1 - i])]

\* save_data: the kept records whose date is not today, prepared
SaveData(m, data, today) ==
    LET k == SelectSeq(Kept(m, data), LAMBDA r : r.date # today)
    IN  [i \in 1 .. Len(k) |-> Prepared(m, k[i])]

(***************************************************************************)
(* update_data(), temperature.  A dict is the sequence of its items in     *)
(* insertion order, each item carrying its key in the field day.           *)
(***************************************************************************)
Max(a, b) == IF a >= b THEN a ELSE b

\* the loop over temperature_data.items() after load_json()
ParseTemperature(doc) ==
    [i \in 1 .. Len(doc) |->
        [doc[i] EXCEPT !.sunrise = dt_fromisoformat(@), !.sunset = dt_fromisoformat(@)]]

RECURSIVE LatestKey(_, _)
LatestKey(doc, latest_date) ==
    IF doc = <<>> THEN latest_date
    ELSE LatestKey(Tail(doc), Max(fromisoformat(Head(doc).day), latest_date))

\* itertools.groupby(data, lambda d: d[0].date()): runs of equal keys
RECURSIVE GroupBy(_, _)
GroupBy(data, groups) ==
    IF data = <<>> THEN groups
    ELSE LET k == DateOf(Head(data)._time)
             n == Len(groups)
         IN  IF n > 0 /\ groups[n].key = k
             THEN GroupBy(Tail(data), [groups EXCEPT ![n].items = Append(@, Head(data))])
             ELSE GroupBy(Tail(data), Append(groups, [key |-> k, items |-> <<Head(data)>>]))

\* (mutant) the daytime test excludes the instant of sunset
RECURSIVE Classify_BeforeSunset(_, _, _, _)
Classify_BeforeSunset(items, sunrise, sunset, acc) ==
    IF items = <<>> THEN acc
    ELSE LET x == Head(items)
         IN  Classify_BeforeSunset(Tail(items), sunrise, sunset,
                 IF x._value < FaultFloor THEN acc
                 ELSE IF x._time < sunrise
                      THEN [acc EXCEPT !.nighttime = Append(@, x._value)]
                 ELSE IF sunrise <= x._time /\ x._time < sunset
                      THEN [acc EXCEPT !.daytime = Append(@, x._value)]
                 ELSE IF x._time > sunset
                      THEN [acc EXCEPT !.nighttime = Append(@, x._value)]
                 ELSE acc)

\* the loop over one day's datapoints
RECURSIVE Classify(_, _, _, _)
Classify(items, sunrise, sunset, acc) ==
    IF items = <<>> THEN acc
    ELSE LET x == Head(items)
         IN  Classify(Tail(items), sunrise, sunset,
                 IF x._value < FaultFloor THEN acc
                 ELSE IF x._time < sunrise
                      THEN [acc EXCEPT !.nighttime = Append(@, x._value)]
                 ELSE IF sunrise <= x._time /\ x._time <= sunset
                      THEN [acc EXCEPT !.daytime = Append(@, x._value)]
                 ELSE IF x._time > sunset
                      THEN [acc EXCEPT !.nighttime = Append(@, x._value)]
                 ELSE acc)

\* temperature_data[key] = item
DictSet(dict, item) ==
    IF \E i \in 1 .. Len(dict) : dict[i].day = item.day
    THEN [i \in 1 .. Len(dict) |-> IF dict[i].day = item.day THEN item ELSE dict[i]]
    ELSE Append(dict, item)

\* the loop over groupby(...)
RECURSIVE MergeDays(_, _)
MergeDays(temperature_data, groups) ==
    IF groups = <<>> THEN temperature_data
    ELSE LET day == Head(groups).key
             s == sun(day)
             c == Classify(Head(groups).items, s.sunrise, s.sunset,
                           [daytime |-> <<>>, nighttime |-> <<>>])
         IN  MergeDays(DictSet(temperature_data,
                               [day |-> isoformat(day), sunrise |-> s.sunrise, sunset |-> s.sunset,
                                daytime |-> c.daytime, nighttime |-> c.nighttime]),
                       Tail(groups))

\* output_data: every item but today's, with sunrise and sunset as text
TemperatureOutput(temperature_data, today) ==
    LET k == SelectSeq(temperature_data, LAMBDA r : r.day # today)
    IN  [i \in 1 .. Len(k) |->
            [k[i] EXCEPT !.sunrise = dt_isoformat(@), !.sunset = dt_isoformat(@)]]

(***************************************************************************)
(* update_data(): the steps of one caller                                  *)
(***************************************************************************)
\* (mutant) energy and rainfall load the cache file
Load_FromCache(p) ==
    /\ pc[p] = "idle"
    /\ start' = [start EXCEPT ![p] = <<canon, cache>>]
    /\ LET file == IF metric = "temperature" THEN canon ELSE cache
       IN  IF metric = "temperature"
           THEN /\ loc' = [loc EXCEPT ![p] =
                        [NoLocals EXCEPT !.data = ParseTemperature(file.data),
                                         !.latest_date =
                                             LatestKey(file.data, DefaultLatestDate(metric))]]
                /\ pc' = [pc EXCEPT ![p] = "loaded"]
                /\ outcome' = [outcome EXCEPT ![p] = "running"]
           ELSE IF file.exists /\ file.data = <<>>
           THEN /\ loc' = [loc EXCEPT ![p] = NoLocals]
                /\ pc' = [pc EXCEPT ![p] = "idle"]
                /\ outcome' = [outcome EXCEPT ![p] = "IndexError: latest_date"]
           ELSE /\ loc' = [loc EXCEPT ![p] =
                        [NoLocals EXCEPT !.data = ParseDates(file.data),
                                         !.latest_date =
                                             IF file.exists
                                             THEN LatestDate(ParseDates(file.data))
                                             ELSE DefaultLatestDate(metric)]]
                /\ pc' = [pc EXCEPT ![p] = "loaded"]
                /\ outcome' = [outcome EXCEPT ![p] = "running"]
    /\ UNCHANGED <<view, metric, nproc, now, source, canon, cache, seen, last, writer>>

\* is_file(), load_json(), latest_date
Load(p) ==
    /\ pc[p] = "idle"
    /\ start' = [start EXCEPT ![p] = <<canon, cache>>]
    /\ IF metric = "temperature"
       THEN /\ loc' = [loc EXCEPT ![p] =
                    [NoLocals EXCEPT !.data = ParseTemperature(canon.data),
                                     !.latest_date = LatestKey(canon.data, DefaultLatestDate(metric))]]
            /\ pc' = [pc EXCEPT ![p] = "loaded"]
            /\ outcome' = [outcome EXCEPT ![p] = "running"]
       ELSE IF canon.exists /\ canon.data = <<>>
       THEN \* data[-1] of an empty list
            /\ loc' = [loc EXCEPT ![p] = NoLocals]
            /\ pc' = [pc EXCEPT ![p] = "idle"]
            /\ outcome' = [outcome EXCEPT ![p] = "IndexError: latest_date"]
       ELSE /\ loc' = [loc EXCEPT ![p] =
                    [NoLocals EXCEPT !.data = ParseDates(canon.data),
                                     !.latest_date =
                                         IF canon.exists
                                         THEN LatestDate(ParseDates(canon.data))
                                         ELSE DefaultLatestDate(metric)]]
            /\ pc' = [pc EXCEPT ![p] = "loaded"]
            /\ outcome' = [outcome EXCEPT ![p] = "running"]
    /\ UNCHANGED <<view, metric, nproc, now, source, canon, cache, seen, last, writer>>

\* date.today(), the query, the merge and the two output lists
Query(p) ==
    /\ pc[p] = "loaded"
    /\ LET today == now
           tables == QueryTables(metric, loc[p].latest_date, source, now)
       IN  IF tables = <<>>
           THEN \* tables[0] of an empty TableList
                /\ loc' = [loc EXCEPT ![p].today = today]
                /\ pc' = [pc EXCEPT ![p] = "idle"]
                /\ outcome' = [outcome EXCEPT ![p] = "IndexError: tables"]
                /\ seen' = seen
           ELSE /\ pc' = [pc EXCEPT ![p] = "fetched"]
                /\ outcome' = outcome
                /\ seen' = [seen EXCEPT ![p] = source]
                /\ IF metric = "temperature"
                   THEN LET data == MergeDays(loc[p].data, GroupBy(tables[1], <<>>))
                        IN  loc' = [loc EXCEPT ![p].today = today,
                                               ![p].data = data,
                                               ![p].output_data =
                                                   TemperatureOutput(data, isoformat(today))]
                   ELSE LET data == AppendRows(metric, loc[p].data, tables[1])
                        IN  loc' = [loc EXCEPT ![p].today = today,
                                               ![p].data = data,
                                               ![p].output_data = OutputData(metric, data),
                                               ![p].save_data = SaveData(metric, data, today)]
    /\ UNCHANGED <<view, metric, nproc, now, source, canon, cache, start, last, writer>>

\* (mutant) the cache file is rewritten from the loaded data before the query
QueryFails_AfterCacheWrite(p) ==
    /\ pc[p] = "loaded"
    /\ pc' = [pc EXCEPT ![p] = "idle"]
    /\ outcome' = [outcome EXCEPT ![p] = "SourceUnavailable"]
    /\ cache' = File(OutputData(metric, loc[p].data))
    /\ UNCHANGED <<view, metric, nproc, now, source, canon, loc, start, seen, last, writer>>

\* the query raises: InfluxDB cannot be reached, or the request times out
QueryFails(p) ==
    /\ pc[p] = "loaded"
    /\ pc' = [pc EXCEPT ![p] = "idle"]
    /\ outcome' = [outcome EXCEPT ![p] = "SourceUnavailable"]
    /\ UNCHANGED <<view, metric, nproc, now, source, canon, cache, loc, start, seen, last, writer>>

\* (mutant) the first write goes to the canonical file
SaveCache_WritesCanonical(p) ==
    /\ pc[p] = "fetched"
    /\ metric # "temperature"
    /\ canon' = File(loc[p].save_data)
    /\ pc' = [pc EXCEPT ![p] = "cache_saved"]
    /\ writer' = [writer EXCEPT !.canon = p]
    /\ last' = [last EXCEPT !.valid = @ /\ canon' = canon]
    /\ UNCHANGED <<view, metric, nproc, now, source, cache, loc, outcome, start, seen>>

\* PathPlus(self.cache_data_file).dump_json(output_data)
SaveCache(p) ==
    /\ pc[p] = "fetched"
    /\ metric # "temperature"
    /\ cache' = File(loc[p].output_data)
    /\ pc' = [pc EXCEPT ![p] = "cache_saved"]
    /\ writer' = [writer EXCEPT !.cache = p]
    /\ last' = [last EXCEPT !.valid = @ /\ cache' = cache]
    /\ UNCHANGED <<view, metric, nproc, now, source, canon, loc, outcome, start, seen>>

\* the records of the merged data that are dated today
TodayRecords(m, data, today) ==
    IF m = "temperature"
    THEN TemperatureOutput(SelectSeq(data, LAMBDA r : r.day = isoformat(today)), <<>>)
    ELSE OutputData(m, SelectSeq(data, LAMBDA r : r.date = today))

\* (mutant) the canonical file receives output_data, today's record included
SaveCanon_WritesOutput(p) ==
    /\ pc[p] = (IF metric = "temperature" THEN "fetched" ELSE "cache_saved")
    /\ canon' = File(loc[p].output_data)
    /\ pc' = [pc EXCEPT ![p] = "idle"]
    /\ outcome' = [outcome EXCEPT ![p] = "ok"]
    /\ writer' = [writer EXCEPT !.canon = p]
    /\ loc' = [loc EXCEPT ![p].data = <<>>]
    /\ last' = [valid |-> TRUE, today |-> loc[p].today, source |-> seen[p],
                today_records |-> TodayRecords(metric, loc[p].data, loc[p].today),
                repeat |-> last.valid /\ last.today = loc[p].today /\ last.source = seen[p]]
    /\ start' = [start EXCEPT ![p] = <<Absent, Absent>>]
    /\ seen' = [seen EXCEPT ![p] = EmptyBucket(metric)]
    /\ UNCHANGED <<view, metric, nproc, now, source, cache>>

\* json_datafile.dump_json(save_data) (temperature: dump_json(output_data))
SaveCanon(p) ==
    /\ pc[p] = (IF metric = "temperature" THEN "fetched" ELSE "cache_saved")
    /\ canon' = File(IF metric = "temperature" THEN loc[p].output_data ELSE loc[p].save_data)
    /\ pc' = [pc EXCEPT ![p] = "idle"]
    /\ outcome' = [outcome EXCEPT ![p] = "ok"]
    /\ writer' = [writer EXCEPT !.canon = p]
    /\ loc' = [loc EXCEPT ![p].data = <<>>]
    /\ last' = [valid |-> TRUE, today |-> loc[p].today, source |-> seen[p],
                today_records |-> TodayRecords(metric, loc[p].data, loc[p].today),
                repeat |-> last.valid /\ last.today = loc[p].today /\ last.source = seen[p]]
    /\ start' = [start EXCEPT ![p] = <<Absent, Absent>>]
    /\ seen' = [seen EXCEPT ![p] = EmptyBucket(metric)]
    /\ UNCHANGED <<view, metric, nproc, now, source, cache>>

\* the second write raises after the first went through
SaveCanonFails(p) ==
    /\ pc[p] = "cache_saved"
    /\ pc' = [pc EXCEPT ![p] = "idle"]
    /\ outcome' = [outcome EXCEPT ![p] = "OSError"]
    /\ seen' = [seen EXCEPT ![p] = EmptyBucket(metric)]
    /\ UNCHANGED <<view, metric, nproc, now, source, canon, cache, loc, start, last, writer>>

(***************************************************************************)
(* get_data(): energy and rainfall read cache_data_file and parse the      *)
(* dates; temperature reads output_data_file and returns the mapping.      *)
(***************************************************************************)
\* (mutant) every backend reads output_data_file
get_data_file_Output(m, out, cch) == out

get_data_file(m, out, cch) == IF m = "temperature" THEN out ELSE cch

\* (mutant) energy and rainfall read the canonical file
get_data_Canonical(m, out, cch) ==
    IF ~out.exists THEN [raised |-> "FileNotFoundError", data |-> <<>>]
    ELSE [raised |-> "",
          data |-> IF m = "temperature" THEN out.data ELSE ParseDates(out.data)]

get_data(m, out, cch) ==
    LET f == get_data_file(m, out, cch)
    IN  IF ~f.exists THEN [raised |-> "FileNotFoundError", data |-> <<>>]
        ELSE [raised |-> "",
              data |-> IF m = "temperature" THEN f.data ELSE ParseDates(f.data)]

Next ==
    \/ NextDay
    \/ Upstream
    \/ \E p \in Procs : Load(p)
    \/ \E p \in Procs : Query(p)
    \/ \E p \in Procs : QueryFails(p)
    \/ \E p \in Procs : SaveCache(p)
    \/ \E p \in Procs : SaveCanon(p)
    \/ \E p \in Procs : SaveCanonFails(p)

Spec == Init /\ [][Next]_vars

(***************************************************************************)
(* The refreshes of the two metrics that keep a daily total in a canonical *)
(* and a cache file: energy and rainfall.                                  *)
(***************************************************************************)
InitTotals == Init /\ metric # "temperature"

SpecTotals == InitTotals /\ [][Next]_vars

(***************************************************************************)
(* Two callers of update_data() on the same pair of files, each running    *)
(* one refresh, in any interleaving of their steps.                        *)
(***************************************************************************)
InitConcurrent == InitWith(2) /\ metric # "temperature"

LoadOnce(p) == outcome[p] = "none" /\ Load(p)

NextDayConcurrent == now < FirstDay(metric) + MaxDaysConcurrent /\ NextDay

NextConcurrent ==
    \/ NextDayConcurrent
    \/ Upstream
    \/ \E p \in Procs : LoadOnce(p)
    \/ \E p \in Procs : Query(p)
    \/ \E p \in Procs : QueryFails(p)
    \/ \E p \in Procs : SaveCache(p)
    \/ \E p \in Procs : SaveCanon(p)
    \/ \E p \in Procs : SaveCanonFails(p)

SpecConcurrent == InitConcurrent /\ [][NextConcurrent]_vars

(***************************************************************************)
(* The rollup endpoints of energy and rainfall.  A mapping is the sequence *)
(* of its items [key, value] in insertion order.  A key is the tuple of    *)
(* the numbers its text is formatted from: " MM/YYYY" is <<MM, YYYY>>,     *)
(* str(year) is <<YYYY>>, and "current" is <<>>.  a / b is kept as the     *)
(* exact fraction [num, den].                                              *)
(***************************************************************************)
\* date.year, date.month, date.day
DateYear(d) == isoformat(d)[1]
DateMonth(d) == isoformat(d)[2]
DateDay(d) == isoformat(d)[3]

\* sum(list)
RECURSIVE Sum(_)
Sum(s) == IF s = <<>> THEN 0 ELSE Head(s) + Sum(Tail(s))

\* a / b for b # 0
TrueDiv(a, b) == [num |-> a, den |-> b]

\* the literal 0 of an "average" field
Zero == [num |-> 0, den |-> 1]

\* f" {month:02d}/{year}", month.split('/')[1], str(today.year), "current"
MonthKey(month, year) == <<month, year>>
YearText(key) == <<key[2]>>
str(year) == <<year>>
CurrentKey == <<>>

\* key in mapping, mapping[key], mapping[key] = value
HasKey(mapping, key) == \E i \in 1 .. Len(mapping) : mapping[i].key = key
Lookup(mapping, key) == mapping[CHOOSE i \in 1 .. Len(mapping) : mapping[i].key = key].value
SetItem(mapping, key, value) ==
    IF HasKey(mapping, key)
    THEN [i \in 1 .. Len(mapping) |->
            IF mapping[i].key = key THEN [key |-> key, value |-> value] ELSE mapping[i]]
    ELSE Append(mapping, [key |-> key, value |-> value])

\* itertools.groupby(self.get_data(), lambda x: (x["date"].year, x["date"].month))
RECURSIVE GroupByMonth(_, _)
GroupByMonth(data, groups) ==
    IF data = <<>> THEN groups
    ELSE LET k == <<DateYear(Head(data).date), DateMonth(Head(data).date)>>
             n == Len(groups)
         IN  IF n > 0 /\ groups[n].key = k
             THEN GroupByMonth(Tail(data), [groups EXCEPT ![n].items = Append(@, Head(data))])
             ELSE GroupByMonth(Tail(data), Append(groups, [key |-> k, items |-> <<Head(data)>>]))

\* days_in_month: energy compares the month number only, rainfall month and year
DaysInMonth(m, year, month, today) ==
    IF m = "energy"
    THEN (IF month = DateMonth(today) THEN DateDay(today) ELSE monthrange(year, month))
    ELSE (IF month = DateMonth(today) /\ year = DateYear(today)
          THEN DateDay(today) ELSE monthrange(year, month))

\* (mutant) the flag looks at the month number only
CompleteMonth_MonthOnly(year, month, today) == month # DateMonth(today)

\* "complete_month"
CompleteMonth(year, month, today) == month # DateMonth(today) \/ year # DateYear(today)

\* the entry of one (year, month) group
MonthlyEntry(m, g, today) ==
    LET year == g.key[1]
        month == g.key[2]
        list == [i \in 1 .. Len(g.items) |-> Value(m, g.items[i])]
        days_in_month == DaysInMonth(m, year, month, today)
    IN  IF m = "energy"
        THEN [total |-> Sum(list),
              average |-> TrueDiv(Sum(list), days_in_month),
              complete_month |-> CompleteMonth(year, month, today)]
        ELSE [total |-> Sum(list),
              days |-> Len(list),
              average |-> TrueDiv(Sum(list), days_in_month),
              complete_month |-> CompleteMonth(year, month, today)]

\* the entry "current" gets when today's month has none
MonthlyPlaceholder(m) ==
    IF m = "energy"
    THEN [total |-> 0, average |-> Zero, complete_month |-> FALSE]
    ELSE [total |-> 0, days |-> 0, average |-> Zero, complete_month |-> FALSE]

\* the if/else that sets the key "current"
SetCurrentMonth(m, monthly, today) ==
    LET current_month_key == MonthKey(DateMonth(today), DateYear(today))
    IN  SetItem(monthly, CurrentKey,
                IF HasKey(monthly, current_month_key)
                THEN Lookup(monthly, current_month_key)
                ELSE MonthlyPlaceholder(m))

\* the loop over the groups; rainfall sets "current" inside it
RECURSIVE MonthlyLoop(_, _, _, _)
MonthlyLoop(m, groups, today, monthly) ==
    IF groups = <<>> THEN monthly
    ELSE LET g == Head(groups)
             set == SetItem(monthly, MonthKey(g.key[2], g.key[1]), MonthlyEntry(m, g, today))
         IN  MonthlyLoop(m, Tail(groups), today,
                         IF m = "rainfall" THEN SetCurrentMonth(m, set, today) ELSE set)

\* get_monthly_endpoint_data(); energy sets "current" after the loop
get_monthly_endpoint_data(m, read, today) ==
    IF read.raised # "" THEN [raised |-> read.raised, data |-> <<>>]
    ELSE LET groups == GroupByMonth(read.data, <<>>)
             monthly == MonthlyLoop(m, groups, today, <<>>)
         IN  IF \E i \in 1 .. Len(groups) :
                    DaysInMonth(m, groups[i].key[1], groups[i].key[2], today) = 0
             THEN [raised |-> "ZeroDivisionError", data |-> <<>>]
             ELSE [raised |-> "",
                   data |-> IF m = "energy" THEN SetCurrentMonth(m, monthly, today)
                            ELSE monthly]

\* (mutant) days counts the months of the year
YearlyAdd_CountsMonths(entry, month_data) ==
    [entry EXCEPT !.total = @ + month_data.total, !.days = @ + 1]

\* the two += of the yearly loop
YearlyAdd(entry, month_data) ==
    [entry EXCEPT !.total = @ + month_data.total, !.days = @ + month_data.days]

\* the loop over monthly_rainfall.items()
RECURSIVE YearlyLoop(_, _, _)
YearlyLoop(items, today, acc) ==
    IF items = <<>> \/ acc.raised # "" THEN acc
    ELSE LET month == Head(items).key
             month_data == Head(items).value
         IN  IF month = CurrentKey THEN YearlyLoop(Tail(items), today, acc)
             ELSE LET year == YearText(month)
                      yearly == IF HasKey(acc.data, year) THEN acc.data
                                ELSE SetItem(acc.data, year,
                                             [total |-> 0, days |-> 0, average |-> Zero,
                                              complete_year |-> year # str(DateYear(today))])
                      added == YearlyAdd(Lookup(yearly, year), month_data)
                  IN  IF added.days = 0
                      THEN [raised |-> "ZeroDivisionError", data |-> <<>>]
                      ELSE YearlyLoop(Tail(items), today,
                               [raised |-> "",
                                data |-> SetItem(yearly, year,
                                             [added EXCEPT !.average =
                                                 TrueDiv(added.total, added.days)])])

YearlyPlaceholder == [total |-> 0, days |-> 0, average |-> Zero, complete_year |-> FALSE]

\* get_yearly_endpoint_data() of the rainfall backend
get_yearly_endpoint_data(monthly_rainfall, today) ==
    IF monthly_rainfall.raised # "" THEN monthly_rainfall
    ELSE LET y == YearlyLoop(monthly_rainfall.data, today, [raised |-> "", data |-> <<>>])
             current_year_key == str(DateYear(today))
         IN  IF y.raised # "" THEN y
             ELSE [raised |-> "",
                   data |-> SetItem(y.data, CurrentKey,
                                    IF HasKey(y.data, current_year_key)
                                    THEN Lookup(y.data, current_year_key)
                                    ELSE YearlyPlaceholder)]

\* a request for the monthly endpoint
GetMonthly ==
    /\ metric # "temperature"
    /\ LET r == get_monthly_endpoint_data(metric, get_data(metric, canon, cache), now)
       IN  view' = [endpoint |-> "monthly", raised |-> r.raised, data |-> r.data]
    /\ UNCHANGED <<metric, nproc, now, source, canon, cache, pc, loc, outcome, start, seen, last,
                   writer>>

\* a request for the yearly endpoint
GetYearly ==
    /\ metric = "rainfall"
    /\ LET r == get_yearly_endpoint_data(
                    get_monthly_endpoint_data(metric, get_data(metric, canon, cache), now), now)
       IN  view' = [endpoint |-> "yearly", raised |-> r.raised, data |-> r.data]
    /\ UNCHANGED <<metric, nproc, now, source, canon, cache, pc, loc, outcome, start, seen, last,
                   writer>>

(***************************************************************************)
(* The rollups as functions of what read returns: the files hold a daily   *)
(* history of up to MaxRecords records spread over two years, as a series  *)
(* of refreshes leaves them, and the endpoints are requested.              *)
(***************************************************************************)
MaxRecords == 3

RollupDates ==
    {date(2022, 8, 31), date(2022, 9, 1), date(2023, 7, 31), date(2023, 8, 1), date(2023, 8, 2)}
RollupTodays == {date(2023, 8, 2), date(2023, 9, 1)}
RollupValues(m) == IF m = "energy" THEN {1, 2} ELSE {TipThreshold + 1, TipThreshold + 2}

\* the records of the days in D with values f, in date order
RECURSIVE History(_, _, _)
History(m, D, f) ==
    IF D = {} THEN <<>>
    ELSE LET d == CHOOSE x \in D : \A y \in D : x <= y
         IN  <<Record(m, d, f[d])>> \o History(m, D \ {d}, f)

InitRollup ==
    /\ metric \in {"energy", "rainfall"}
    /\ nproc = 1
    /\ now \in RollupTodays
    /\ source = EmptyBucket(metric)
    /\ \/ canon = Absent /\ cache = Absent
       \/ \E D \in SUBSET {d \in RollupDates : d <= now} :
             /\ Cardinality(D) <= MaxRecords
             /\ \E f \in [D -> RollupValues(metric)] :
                   /\ cache = File(OutputData(metric, History(metric, D, f)))
                   /\ canon = File(SaveData(metric, History(metric, D, f), now))
    /\ pc = [p \in 1 .. 1 |-> "idle"]
    /\ loc = [p \in 1 .. 1 |-> NoLocals]
    /\ outcome = [p \in 1 .. 1 |-> "none"]
    /\ start = [p \in 1 .. 1 |-> <<Absent, Absent>>]
    /\ seen = [p \in 1 .. 1 |-> EmptyBucket(metric)]
    /\ last = NoLast(metric)
    /\ writer = [canon |-> 0, cache |-> 0]
    /\ view = NoView

NextRollup ==
    \/ GetMonthly
    \/ GetYearly

SpecRollup == InitRollup /\ [][NextRollup]_vars

(***************************************************************************)
(* The daily endpoint of the temperature backend.  A reduction of a list   *)
(* is the pair of the exception it raises ("" for none) and its value.     *)
(***************************************************************************)
Range(list) == {list[i] : i \in 1 .. Len(list)}

\* statistics.mean(list)
mean(list) ==
    IF list = <<>> THEN [raised |-> "StatisticsError", value |-> Zero]
    ELSE [raised |-> "", value |-> TrueDiv(Sum(list), Len(list))]

\* min(list), max(list)
min(list) ==
    IF list = <<>> THEN [raised |-> "ValueError", value |-> 0]
    ELSE [raised |-> "", value |-> CHOOSE x \in Range(list) : \A y \in Range(list) : x <= y]
max(list) ==
    IF list = <<>> THEN [raised |-> "ValueError", value |-> 0]
    ELSE [raised |-> "", value |-> CHOOSE x \in Range(list) : \A y \in Range(list) : x >= y]

\* the nine reductions of one day, in the order the dict display evaluates them
Reductions(daily_data) ==
    LET nighttime == daily_data.nighttime
        daytime == daily_data.daytime
        all_day == daytime \o nighttime
    IN  <<mean(all_day), min(all_day), max(all_day),
          mean(daytime), min(daytime), max(daytime),
          mean(nighttime), min(nighttime), max(nighttime)>>

\* (mutant) a reduction of an empty list yields its sentinel value
FirstRaised_None(rs) == ""

\* the exception that ends the evaluation: that of the first reduction to raise
RECURSIVE FirstRaised(_)
FirstRaised(rs) ==
    IF rs = <<>> THEN ""
    ELSE IF Head(rs).raised # "" THEN Head(rs).raised
    ELSE FirstRaised(Tail(rs))

\* min_max_data[day]
DailyEntry(daily_data) ==
    LET r == Reductions(daily_data)
    IN  [day |-> daily_data.day, sunrise |-> daily_data.sunrise, sunset |-> daily_data.sunset,
         average |-> r[1].value, min |-> r[2].value, max |-> r[3].value,
         day_average |-> r[4].value, day_min |-> r[5].value, day_max |-> r[6].value,
         night_average |-> r[7].value, night_min |-> r[8].value, night_max |-> r[9].value]

\* the loop over self.get_data().items(): an exception ends the whole call
RECURSIVE DailyLoop(_, _)
DailyLoop(items, min_max_data) ==
    IF items = <<>> THEN [raised |-> "", data |-> min_max_data]
    ELSE LET raised == FirstRaised(Reductions(Head(items)))
         IN  IF raised # "" THEN [raised |-> raised, data |-> <<>>]
             ELSE DailyLoop(Tail(items), DictSet(min_max_data, DailyEntry(Head(items))))

\* TemperatureBackend.get_daily_endpoint_data()
get_daily_endpoint_data(read) ==
    IF read.raised # "" THEN [raised |-> read.raised, data |-> <<>>]
    ELSE DailyLoop(read.data, <<>>)

\* a request for the temperature daily endpoint
GetDaily ==
    /\ metric = "temperature"
    /\ LET r == get_daily_endpoint_data(get_data(metric, canon, cache))
       IN  view' = [endpoint |-> "daily", raised |-> r.raised, data |-> r.data]
    /\ UNCHANGED <<metric, nproc, now, source, canon, cache, pc, loc, outcome, start, seen, last,
                   writer>>

(***************************************************************************)
(* The temperature cleaner on whole days of samples: the bucket holds up   *)
(* to MaxSamples samples of the first day after the epoch, at any time of  *)
(* day and on either side of the fault floor, and either nothing or one    *)
(* night and one day sample of the second; a refresh runs on the third     *)
(* day and the daily endpoint is requested.                                *)
(***************************************************************************)
MaxSamples == 2

CleanerValues == {FaultFloor - 1, FaultFloor, 10}

\* the time-ordered sample sequences of one day, up to n samples after slot s
RECURSIVE DaySamples(_, _, _)
DaySamples(d, s, n) ==
    {<<>>} \cup
    (IF n = 0 THEN {}
     ELSE UNION {{<<[_time |-> Midnight(d) + t, _value |-> v]>> \o rest :
                    rest \in DaySamples(d, t + 1, n - 1)} :
                 t \in s .. SlotsPerDay - 1, v \in CleanerValues})

\* one sample before sunrise and one at sunrise, both sound
GoodDay(d) ==
    <<[_time |-> sun(d).sunrise - 1, _value |-> 10], [_time |-> sun(d).sunrise, _value |-> 10]>>

CleanerDay1 == FirstDay("temperature") + 1
CleanerDay2 == FirstDay("temperature") + 2
CleanerToday == FirstDay("temperature") + 3

InitTemperature ==
    /\ metric = "temperature"
    /\ nproc = 1
    /\ now = CleanerToday
    /\ \E s1 \in DaySamples(CleanerDay1, 0, MaxSamples) :
       \E s2 \in {<<>>, GoodDay(CleanerDay2)} :
          source = [EmptyBucket(metric) EXCEPT ![CleanerDay1] = s1, ![CleanerDay2] = s2]
    /\ canon = Absent
    /\ cache = Absent
    /\ pc = [p \in 1 .. 1 |-> "idle"]
    /\ loc = [p \in 1 .. 1 |-> NoLocals]
    /\ outcome = [p \in 1 .. 1 |-> "none"]
    /\ start = [p \in 1 .. 1 |-> <<Absent, Absent>>]
    /\ seen = [p \in 1 .. 1 |-> EmptyBucket(metric)]
    /\ last = NoLast(metric)
    /\ writer = [canon |-> 0, cache |-> 0]
    /\ view = NoView

NextTemperature ==
    \/ Load(1)
    \/ Query(1)
    \/ SaveCanon(1)
    \/ GetDaily

SpecTemperature == InitTemperature /\ [][NextTemperature]_vars

(***************************************************************************)
(* Vocabulary of the properties                                            *)
(***************************************************************************)
IsPrefix(a, b) == Len(a) <= Len(b) /\ \A i \in 1 .. Len(a) : a[i] = b[i]

\* the dates of a persisted document, in its order
DocDates(m, doc) ==
    [i \in 1 .. Len(doc) |-> fromisoformat(IF m = "temperature" THEN doc[i].day ELSE doc[i].date)]

StrictlyIncreasing(ds) == \A i \in 1 .. Len(ds) : \A j \in 1 .. Len(ds) : i < j => ds[i] < ds[j]

\* the date of the last canonical record; the metric's epoch while there is none
Watermark(m, file) ==
    LET ds == DocDates(m, file.data)
    IN  IF ds = <<>> THEN DefaultLatestDate(m) ELSE ds[Len(ds)]

\* both files hold what the last completed refresh wrote
Settled == last.valid

\* C1: energy and rainfall: after a refresh that completes, the cache sequence
\* is the canonical sequence followed by the record the refresh produced for its
\* today (if any), and the canonical sequence has no record dated that today.
C1_Partition ==
    (metric # "temperature" /\ Settled) =>
        /\ cache.data = canon.data \o last.today_records
        /\ Len(last.today_records) <= 1
        /\ \A i \in 1 .. Len(canon.data) : canon.data[i].date # isoformat(last.today)

C1_Witness ==
    /\ metric # "temperature"
    /\ Settled
    /\ last.today_records # <<>>
    /\ canon.data # <<>>

\* C2: a step never lowers the watermark of the canonical snapshot, and the
\* dates of the canonical sequence stay strictly increasing (no date twice).
C2_MonotonicWatermark ==
    [][/\ Watermark(metric, canon') >= Watermark(metric, canon)
       /\ StrictlyIncreasing(DocDates(metric, canon'.data))]_vars

C2_Witness ==
    /\ Len(canon.data) >= 2
    /\ last.valid

\* C3: while both files hold what the last completed refresh wrote, a refresh
\* that runs on the same day and finds the bucket exactly as that one found it
\* changes neither file with its writes.
C3_Idempotent ==
    [][\A p \in Procs :
          (/\ pc[p] \in {"fetched", "cache_saved"}
           /\ last.valid
           /\ loc[p].today = last.today
           /\ seen[p] = last.source)
          => (canon' = canon /\ cache' = cache)]_vars

C3_Witness ==
    /\ metric # "temperature"
    /\ Settled
    /\ last.repeat
    /\ last.today_records # <<>>
    /\ canon.data # <<>>

\* C4: while a refresh has not finished its query, and after its query has
\* failed, both files are exactly as the refresh found them.
C4_FailedQueryLeavesFiles ==
    \A p \in Procs :
        (pc[p] \in {"loaded", "fetched"} \/ (pc[p] = "idle" /\ outcome[p] = "SourceUnavailable"))
        => (canon = start[p][1] /\ cache = start[p][2])

C4_Witness ==
    /\ outcome[1] = "SourceUnavailable"
    /\ pc[1] = "idle"
    /\ metric # "temperature"
    /\ canon.data # <<>>
    /\ cache.data # canon.data

\* C5: when the query answers with no row at all, the refresh goes on to its
\* writes, and what it is about to write to both files is the canonical
\* sequence it loaded.
C5_EmptyResultRewrites ==
    [][\A p \in Procs :
          (/\ pc[p] = "loaded" /\ pc'[p] # "loaded"
           /\ outcome'[p] # "SourceUnavailable"
           /\ QueryTables(metric, loc[p].latest_date, source, now) = <<>>)
          => (/\ pc'[p] = "fetched"
              /\ loc'[p].output_data = start[p][1].data
              /\ metric # "temperature" => loc'[p].save_data = start[p][1].data)]_vars

\* C6: energy and rainfall: a refresh that finds an empty canonical sequence,
\* the file absent or holding an empty list, takes the metric's epoch as its
\* watermark and goes on; it does not fail while computing the watermark.
C6_EmptyCanonicalUsesEpoch ==
    \A p \in Procs :
        (metric # "temperature" /\ outcome[p] # "none" /\ start[p][1].data = <<>>)
        => (/\ outcome[p] # "IndexError: latest_date"
            /\ pc[p] = "loaded" => loc[p].latest_date = DefaultLatestDate(metric))

\* a day's rows hold a sample the metric's cleaner records
Qualifies(m, rows) ==
    \E i \in 1 .. Len(rows) :
        CASE m = "energy" -> rows[i] # None
          [] m = "rainfall" -> rows[i] > TipThreshold
          [] m = "temperature" -> rows[i]._value >= FaultFloor

\* C7 (as claimed): the range a refresh requests starts at watermark + 1 day
\* when the canonical sequence has a last record, and at the metric's epoch
\* itself when there is no canonical file.
C7_StartsAtEpoch ==
    \A p \in Procs :
        pc[p] = "loaded" =>
            RangeStart(loc[p].latest_date) =
                IF start[p][1].exists
                THEN Watermark(metric, start[p][1]) + 1
                ELSE DefaultLatestDate(metric)

\* C7 (amended): the range starts at watermark + 1 day, where the watermark of
\* an absent (temperature: or empty) canonical file is the metric's epoch; so
\* the first refresh starts the day after the epoch and no record dated the
\* epoch day is ever persisted.
C7_StartsAfterWatermark ==
    /\ \A p \in Procs :
          pc[p] = "loaded" =>
              RangeStart(loc[p].latest_date) = Watermark(metric, start[p][1]) + 1
    /\ \A i \in 1 .. Len(canon.data) :
          DocDates(metric, canon.data)[i] # DefaultLatestDate(metric)
    /\ \A i \in 1 .. Len(cache.data) :
          DocDates(metric, cache.data)[i] # DefaultLatestDate(metric)

C7_Witness ==
    /\ Qualifies(metric, source[DefaultLatestDate(metric)])
    /\ last.valid
    /\ canon.data # <<>>
    /\ pc[1] = "loaded"
    /\ start[1][1] = canon

\* what a read returns in the current state
ReadResult == get_data(metric, canon, cache)

ReadDates ==
    [i \in 1 .. Len(ReadResult.data) |->
        IF metric = "temperature" THEN fromisoformat(ReadResult.data[i].day)
        ELSE ReadResult.data[i].date]

\* C8 (as claimed): for every metric, a read fails while neither file has been
\* written, and a read after a completed refresh that produced a record for
\* its today returns a date-ordered sequence holding that record.
C8_ReadIncludesToday ==
    /\ (~canon.exists /\ ~cache.exists) => ReadResult.raised # ""
    /\ (Settled /\ last.today_records # <<>>) =>
          /\ ReadResult.raised = ""
          /\ StrictlyIncreasing(ReadDates)
          /\ \E i \in 1 .. Len(ReadDates) : ReadDates[i] = last.today

\* C8 (amended): a read fails while neither file has been written.  For energy
\* and rainfall a read after a completed refresh that produced a record for its
\* today returns a date-ordered sequence ending with that record.  For
\* temperature a read after a completed refresh returns the canonical mapping,
\* date-ordered, which holds no record for that refresh's today.
C8_ReadByMetric ==
    /\ (~canon.exists /\ ~cache.exists) => ReadResult.raised # ""
    /\ (metric # "temperature" /\ Settled /\ last.today_records # <<>>) =>
          /\ ReadResult.raised = ""
          /\ StrictlyIncreasing(ReadDates)
          /\ Len(ReadDates) > 0
          /\ ReadDates[Len(ReadDates)] = last.today
          /\ ReadResult.data = ParseDates(cache.data)
    /\ (metric = "temperature" /\ Settled) =>
          /\ ReadResult.raised = ""
          /\ StrictlyIncreasing(ReadDates)
          /\ \A i \in 1 .. Len(ReadDates) : ReadDates[i] # last.today
          /\ ReadResult.data = canon.data

C8_Witness ==
    /\ metric # "temperature"
    /\ Settled
    /\ last.today_records # <<>>
    /\ Len(ReadDates) >= 2

\* C9: energy and rainfall, one refresher: in every persisted state, between
\* the two writes and after a refresh that stopped between them included, the
\* canonical sequence is a prefix of the cache sequence.
C9_CanonicalPrefixOfCache ==
    metric # "temperature" => IsPrefix(canon.data, cache.data)

C9_Witness ==
    /\ metric # "temperature"
    /\ pc[1] = "idle"
    /\ outcome[1] = "OSError"
    /\ canon.data # <<>>
    /\ Len(cache.data) >= Len(canon.data) + 2

\* both concurrent refreshes have completed
BothDone == nproc = 2 /\ \A p \in Procs : pc[p] = "idle" /\ outcome[p] = "ok"

\* C10 (as claimed): once two concurrent refreshes have both completed, the
\* cache and the canonical file are the pair one and the same refresh wrote.
C10_NoMixedPair ==
    BothDone =>
        \E p \in Procs :
            cache = File(loc[p].output_data) /\ canon = File(loc[p].save_data)

\* C10 (amended): once both have completed, each file holds what the refresh
\* that wrote that file last put there; the two files may come from different
\* refreshes.
C10_LastWriterPerFile ==
    BothDone =>
        /\ cache = File(loc[writer.cache].output_data)
        /\ canon = File(loc[writer.canon].save_data)

C10_Witness ==
    /\ BothDone
    /\ writer.cache # writer.canon
    /\ \A p \in Procs :
          ~(cache = File(loc[p].output_data) /\ canon = File(loc[p].save_data))

\* the items of the monthly mapping other than "current"
MonthItems(data) == SelectSeq(data, LAMBDA it : it.key # CurrentKey)

\* C11: energy and rainfall: in the monthly rollup every (year, month) entry has
\* average = total / denominator, the denominator being today's day of month
\* exactly for the entry of today's month and year, and the calendar length of
\* the month for every other entry, an earlier year's same month included.
C11_Denominator ==
    (view.endpoint = "monthly" /\ view.raised = "") =>
        \A i \in 1 .. Len(MonthItems(view.data)) :
            LET k == MonthItems(view.data)[i].key
                e == MonthItems(view.data)[i].value
            IN  e.average =
                    TrueDiv(e.total,
                            IF k = MonthKey(DateMonth(now), DateYear(now))
                            THEN DateDay(now)
                            ELSE monthrange(k[2], k[1]))

\* the key of today's month
TodayMonthKey == MonthKey(DateMonth(now), DateYear(now))

\* C12: energy and rainfall: for every daily sequence read returns, the empty
\* one included, the monthly rollup is built without a division by zero and
\* holds the key "current": the entry of today's month when that month has
\* records, the zero-valued placeholder with complete_month = false otherwise.
C12_CurrentAlways ==
    view.endpoint = "monthly" =>
        /\ view.raised # "ZeroDivisionError"
        /\ view.raised = "" =>
              /\ HasKey(view.data, CurrentKey)
              /\ Lookup(view.data, CurrentKey) =
                    IF HasKey(view.data, TodayMonthKey)
                    THEN Lookup(view.data, TodayMonthKey)
                    ELSE MonthlyPlaceholder(metric)

\* C13: energy and rainfall: a month entry of the monthly rollup has
\* complete_month = false exactly when its month and its year are both
\* today's; the same month number of another year has complete_month = true.
C13_CompleteMonth ==
    (view.endpoint = "monthly" /\ view.raised = "") =>
        \A i \in 1 .. Len(MonthItems(view.data)) :
            LET k == MonthItems(view.data)[i].key
                e == MonthItems(view.data)[i].value
            IN  (e.complete_month = FALSE) <=> (k[1] = DateMonth(now) /\ k[2] = DateYear(now))

C13_Witness ==
    /\ view.endpoint = "monthly"
    /\ metric = "energy"
    /\ HasKey(view.data, TodayMonthKey)
    /\ ~Lookup(view.data, TodayMonthKey).complete_month
    /\ HasKey(view.data, MonthKey(DateMonth(now), DateYear(now) - 1))
    /\ Lookup(view.data, MonthKey(DateMonth(now), DateYear(now) - 1)).complete_month

\* the items of the yearly mapping other than "current"
YearItems(data) == SelectSeq(data, LAMBDA it : it.key # CurrentKey)

\* the month items of the monthly rollup the yearly rollup was folded from
MonthlyOfRead == MonthItems(get_monthly_endpoint_data(metric, ReadResult, now).data)

\* the month items of one year
MonthsOfYear(y) == SelectSeq(MonthlyOfRead, LAMBDA it : YearText(it.key) = y)

\* C14: rainfall: the yearly rollup is built without a division by zero; every
\* year with a monthly entry has a yearly entry whose total and days are the
\* sums of that year's monthly totals and days (the alias "current" not
\* counted) and whose average is total / days; "current" is the entry of
\* today's year when there is one, the zero placeholder with complete_year =
\* false otherwise.
C14_YearlyFold ==
    view.endpoint = "yearly" =>
        /\ view.raised # "ZeroDivisionError"
        /\ view.raised = "" =>
              /\ \A i \in 1 .. Len(MonthlyOfRead) :
                    HasKey(view.data, YearText(MonthlyOfRead[i].key))
              /\ \A j \in 1 .. Len(YearItems(view.data)) :
                    LET y == YearItems(view.data)[j].key
                        e == YearItems(view.data)[j].value
                        ms == MonthsOfYear(y)
                    IN  /\ e.total = Sum([i \in 1 .. Len(ms) |-> ms[i].value.total])
                        /\ e.days = Sum([i \in 1 .. Len(ms) |-> ms[i].value.days])
                        /\ e.days > 0
                        /\ e.average = TrueDiv(e.total, e.days)
              /\ HasKey(view.data, CurrentKey)
              /\ Lookup(view.data, CurrentKey) =
                    IF HasKey(view.data, str(DateYear(now)))
                    THEN Lookup(view.data, str(DateYear(now)))
                    ELSE YearlyPlaceholder

C14_Witness ==
    /\ view.endpoint = "yearly"
    /\ view.raised = ""
    /\ Len(YearItems(view.data)) = 2
    /\ Len(MonthsOfYear(str(DateYear(now)))) = 2
    /\ HasKey(view.data, CurrentKey)
    /\ Lookup(view.data, CurrentKey).days = 2

\* the document holds a record dated d
HasDate(doc, d) == \E i \in 1 .. Len(doc) : doc[i].date = isoformat(d)

\* the days of the range a caller's query asked for
Fetched(p) == {d \in Days(metric) : RangeStart(loc[p].latest_date) <= d /\ d <= loc[p].today}

\* C15: rainfall: of the days a refresh fetched, the sequence it writes to the
\* cache holds a record for exactly those whose total is strictly above 0.28 mm,
\* and the sequence it writes to the canonical file for exactly those of them
\* that are not today; neither file ever holds a record of 0.28 mm or less.
C15_StrictThreshold ==
    metric = "rainfall" =>
        /\ \A i \in 1 .. Len(cache.data) : cache.data[i].rainfall_mm > TipThreshold
        /\ \A i \in 1 .. Len(canon.data) : canon.data[i].rainfall_mm > TipThreshold
        /\ \A p \in Procs :
              pc[p] \in {"fetched", "cache_saved"} =>
                  LET first == RangeStart(loc[p].latest_date)
                      output == Range(DocDates(metric, loc[p].output_data))
                      save == Range(DocDates(metric, loc[p].save_data))
                      written == Range(DocDates(metric, cache.data))
                  IN  \A d \in Days(metric) :
                          (first <= d /\ d <= loc[p].today) =>
                              LET above == seen[p][d] # <<>> /\ seen[p][d][1] > TipThreshold
                              IN  /\ d \in output <=> above
                                  /\ d \in save <=> (above /\ d # loc[p].today)
                                  /\ pc[p] = "cache_saved" => (d \in written <=> above)

C15_Witness ==
    /\ metric = "rainfall"
    /\ pc[1] = "cache_saved"
    /\ \E d \in Fetched(1) : seen[1][d] = <<TipThreshold>> /\ ~HasDate(cache.data, d)
    /\ \E d \in Fetched(1) : seen[1][d] = <<TipThreshold + 1>> /\ HasDate(cache.data, d)

\* the records the canonical mapping holds for day d
DayRecords(d) == SelectSeq(canon.data, LAMBDA r : r.day = isoformat(d))

\* the values of a sequence of samples, in its order
Values(samples) == [i \in 1 .. Len(samples) |-> samples[i]._value]

Sound(x) == x._value >= FaultFloor
InDaylight(x, d) == sun(d).sunrise <= x._time /\ x._time <= sun(d).sunset

CleanerDays == {CleanerDay1, CleanerDay2}

\* C16: temperature: the record of a fetched date holds, in sample order, in
\* daytime the values not below -140 sampled from sunrise to sunset, both
\* instants included, and in nighttime the values not below -140 sampled at
\* any other time; so each such sample is in exactly one of the two lists and
\* a sample below -140 is in neither.
C16_DayOrNight ==
    (metric = "temperature" /\ canon.exists) =>
        \A d \in CleanerDays :
            source[d] # <<>> =>
                /\ Len(DayRecords(d)) = 1
                /\ DayRecords(d)[1].daytime =
                      Values(SelectSeq(source[d], LAMBDA x : Sound(x) /\ InDaylight(x, d)))
                /\ DayRecords(d)[1].nighttime =
                      Values(SelectSeq(source[d], LAMBDA x : Sound(x) /\ ~InDaylight(x, d)))

C16_Witness ==
    /\ metric = "temperature"
    /\ canon.exists
    /\ source[CleanerDay1] =
          <<[_time |-> sun(CleanerDay1).sunset, _value |-> FaultFloor],
            [_time |-> sun(CleanerDay1).sunset + 1, _value |-> FaultFloor - 1]>>
    /\ Len(DayRecords(CleanerDay1)) = 1
    /\ DayRecords(CleanerDay1)[1].daytime = <<FaultFloor>>
    /\ DayRecords(CleanerDay1)[1].nighttime = <<>>

\* every sample of day d is below the fault floor
AllFaulty(d) == source[d] # <<>> /\ \A i \in 1 .. Len(source[d]) : ~Sound(source[d][i])

\* a date whose samples are all faulty has a record with two empty lists
EmptyDayRecorded ==
    canon.exists =>
        \A d \in CleanerDays :
            AllFaulty(d) =>
                /\ Len(DayRecords(d)) = 1
                /\ DayRecords(d)[1].daytime = <<>>
                /\ DayRecords(d)[1].nighttime = <<>>

HasEmptyList(r) == r.daytime = <<>> \/ r.nighttime = <<>> \/ r.daytime \o r.nighttime = <<>>

\* C17: temperature: a fetched date whose samples are all below -140 gets a
\* record with empty daytime and nighttime lists; a call of the daily endpoint
\* fails when the mapping it reads holds a day whose daytime, nighttime or
\* combined list is empty, and a call that returns has reduced non-empty lists
\* only: every average is a sum over a positive count.
C17_EmptyListFails ==
    [][/\ EmptyDayRecorded'
       /\ (view' # view /\ view'.endpoint = "daily") =>
             LET read == get_data(metric, canon, cache)
             IN  /\ (read.raised = "" /\ \E i \in 1 .. Len(read.data) : HasEmptyList(read.data[i]))
                       => view'.raised # ""
                 /\ view'.raised = "" =>
                       /\ read.raised = ""
                       /\ Len(view'.data) = Len(read.data)
                       /\ \A i \in 1 .. Len(read.data) :
                             LET r == read.data[i]
                                 e == view'.data[i]
                             IN  /\ ~HasEmptyList(r)
                                 /\ e.day = r.day
                                 /\ e.average = TrueDiv(Sum(r.daytime \o r.nighttime),
                                                        Len(r.daytime) + Len(r.nighttime))
                                 /\ e.day_average = TrueDiv(Sum(r.daytime), Len(r.daytime))
                                 /\ e.night_average = TrueDiv(Sum(r.nighttime), Len(r.nighttime))
                                 /\ e.day_min \in Range(r.daytime)
                                 /\ e.day_max \in Range(r.daytime)
                                 /\ e.night_min \in Range(r.nighttime)
                                 /\ e.night_max \in Range(r.nighttime)
                                 /\ e.min \in Range(r.daytime \o r.nighttime)
                                 /\ e.max \in Range(r.daytime \o r.nighttime)]_vars

C17_Witness ==
    /\ metric = "temperature"
    /\ canon.exists
    /\ AllFaulty(CleanerDay1)
    /\ source[CleanerDay2] = GoodDay(CleanerDay2)
    /\ Len(DayRecords(CleanerDay1)) = 1
    /\ HasEmptyList(DayRecords(CleanerDay1)[1])
    /\ Len(DayRecords(CleanerDay2)) = 1
    /\ ~HasEmptyList(DayRecords(CleanerDay2)[1])
    /\ view.endpoint = "daily"
    /\ view.raised = "StatisticsError"

\* the sum of the values of a persisted energy or rainfall sequence
DocTotal(doc) == Sum([i \in 1 .. Len(doc) |-> Value(metric, doc[i])])

\* the sum of the totals of the entries of a rollup, "current" left out
RollupTotal(data) ==
    LET items == SelectSeq(data, LAMBDA it : it.key # CurrentKey)
    IN  Sum([i \in 1 .. Len(items) |-> items[i].value.total])

\* the cache holds a record for today, which the canonical file lacks
TodayInCache ==
    /\ metric # "temperature"
    /\ cache.exists
    /\ Len(cache.data) = Len(canon.data) + 1
    /\ cache.data[Len(cache.data)].date = isoformat(now)

\* the value of today's record
TodayValue == Value(metric, cache.data[Len(cache.data)])

\* the cache records of today's year (yearly rollup) or today's month
CurrentPeriod(endpoint) ==
    SelectSeq(ParseDates(cache.data),
              LAMBDA r : /\ DateYear(r.date) = DateYear(now)
                         /\ endpoint = "monthly" => DateMonth(r.date) = DateMonth(now))

\* C18 (as claimed): energy and rainfall: with today's record in the cache and
\* not in the canonical file, as a refresh leaves them, the totals of the
\* monthly (rainfall: and yearly) rollup add up to the values of the canonical
\* sequence: today's record is in no total.
C18_RollupFromCanonical ==
    (TodayInCache /\ view.endpoint \in {"monthly", "yearly"}) =>
        /\ view.raised = ""
        /\ RollupTotal(view.data) = DocTotal(canon.data)

\* C18 (amended): energy and rainfall: with today's record in the cache and
\* not in the canonical file, the totals of the monthly (rainfall: and yearly)
\* rollup add up to the values of the cache sequence, the canonical values
\* plus today's; the entry "current" is the total of the cache records of
\* today's month (year), today's included.
C18_RollupFromCache ==
    (TodayInCache /\ view.endpoint \in {"monthly", "yearly"}) =>
        /\ view.raised = ""
        /\ RollupTotal(view.data) = DocTotal(cache.data)
        /\ DocTotal(cache.data) = DocTotal(canon.data) + TodayValue
        /\ TodayValue > 0
        /\ HasKey(view.data, CurrentKey)
        /\ Lookup(view.data, CurrentKey).total = DocTotal(CurrentPeriod(view.endpoint))

C18_Witness ==
    /\ TodayInCache
    /\ metric = "rainfall"
    /\ view.endpoint = "yearly"
    /\ Len(canon.data) >= 2
    /\ RollupTotal(view.data) = DocTotal(canon.data) + TodayValue
    /\ Lookup(view.data, CurrentKey).total > TodayValue

\* C19: all three metrics, one refresher: a step leaves the canonical sequence
\* a prefix of what it becomes; a record once written to the canonical file is
\* never removed, moved or given another value by a later refresh.
C19_AppendOnly == [][IsPrefix(canon.data, canon'.data)]_vars

C19_Witness ==
    /\ pc[1] = "idle"
    /\ outcome[1] = "ok"
    /\ loc[1].latest_date > DefaultLatestDate(metric)
    /\ Watermark(metric, canon) > loc[1].latest_date
    /\ Len(canon.data) >= 2

\* the canonical records dated d
CanonRecords(d) == SelectSeq(canon.data, LAMBDA r : r.date = isoformat(d))

====
